---------------------------- MODULE Spec2Model ----------------------------
(***************************************************************************)
(* A model of ImGuiTextSelect's TextSelect widget (textselect.hpp and the  *)
(* current textselect.cpp, kept here as src/unnamed/part_003).             *)
(*                                                                         *)
(* Text is modelled at the byte level: a line is a sequence of UTF-8 bytes *)
(* and character indices are code point indices, as in the source.  Pixel  *)
(* coordinates are integers.  std::size_t is modelled modulo SizeMax.      *)
(***************************************************************************)
EXTENDS Integers, Sequences, FiniteSets, TLC

VARIABLES
    lines,                  \* host content: what getLineAtIdx/getNumLines serve
    enableWordWrap,         \* TextSelect::enableWordWrap
    selectStart,            \* TextSelect::selectStart
    selectEnd,              \* TextSelect::selectEnd
    shouldHandleMouseDown,  \* TextSelect::shouldHandleMouseDown
    mouseDown,              \* host: primary button state seen by the previous frame
    ev,                     \* the last call made on the widget and what it resolved to
    clipWrites,             \* SetClipboardText calls issued by the last call
    lineAtCalls,            \* indices passed to getLineAtIdx by the last call
    rects,                  \* rectangles drawn by the last call
    scrolls,                \* SetScrollX/SetScrollY calls issued by the last call
    probe                   \* inputs and result of the last pure-function call

vars == <<lines, enableWordWrap, selectStart, selectEnd, shouldHandleMouseDown,
          mouseDown, ev, clipWrites, lineAtCalls, rects, scrolls, probe>>

---------------------------------------------------------------------------
(* Bounds of the model                                                     *)

MaxLen == 3         \* code points per line in the pure-function specifications
MaxLines == 2       \* lines per document
MaxClicks == 3      \* click counts 1..MaxClicks
TextHeight == 2     \* host font size in pixels (GetTextLineHeight, FontSize)
ItemSpacing == 1    \* host Style.ItemSpacing.y in pixels
WrapWidth == 4      \* host wrap width in pixels (CalcWrapWidthForPos)
ManyClicks == 9     \* click counts of a repeated click, 1..ManyClicks
MaxCodePoint == 300 \* code points classified, 0..MaxCodePoint
MaxDeltaTime == 2   \* host frame delta time, in ticks, 1..MaxDeltaTime
MaxWindowSize == 1  \* host window extent in pixels, 0..MaxWindowSize
MaxBeyondCap == 2   \* pixels the pointer goes beyond the capped distance

(* std::size_t: arithmetic is modulo SizeMax and npos is the largest value *)
SizeMax == 65536
NPOS == SizeMax - 1

SizeSub(a, b) == (a - b + SizeMax) % SizeMax
SizeAdd(a, b) == (a + b) % SizeMax

Min(a, b) == IF a < b THEN a ELSE b
Max(a, b) == IF a > b THEN a ELSE b

---------------------------------------------------------------------------
(* UTF-8 text                                                              *)

NL == 10            \* '\n'
SP == 32            \* ' '

(* The UTF-8 encoding of one code point below 0x800 *)
EncodeCp(c) == IF c < 128 THEN <<c>> ELSE <<192 + (c \div 64), 128 + (c % 64)>>

RECURSIVE Encode(_)
Encode(cps) == IF cps = <<>> THEN <<>> ELSE EncodeCp(Head(cps)) \o Encode(Tail(cps))

(* utf8::internal::sequence_length, as used by utf8::unchecked::next *)
SeqLength(lead) ==
    IF lead < 128 THEN 1
    ELSE IF lead \div 32 = 6 THEN 2
    ELSE IF lead \div 16 = 14 THEN 3
    ELSE IF lead \div 8 = 30 THEN 4
    ELSE 1

(* The byte at 0-based offset off of s *)
ByteAt(s, off) == s[off + 1]

(* utf8::unchecked::next on a code point that lies inside s: its value *)
CpAt(s, off) ==
    LET b == ByteAt(s, off) IN
    IF SeqLength(b) = 2 /\ off + 1 < Len(s)
    THEN (b % 32) * 64 + (ByteAt(s, off + 1) % 64)
    ELSE b

(* utf8::unchecked::distance(first, last): for (d = 0; first < last; ++d) next(first) *)
RECURSIVE Distance(_, _, _)
Distance(s, off, last) ==
    IF off >= last THEN 0 ELSE 1 + Distance(s, off + SeqLength(ByteAt(s, off)), last)

utf8Length(s) == Distance(s, 0, Len(s))

(* utf8::unchecked::advance(it, n) from byte offset off.  A step taken at or  *)
(* past the end of the span reads host memory; the offset returned then lies  *)
(* past Len(s).                                                               *)
RECURSIVE Advance(_, _, _)
Advance(s, off, n) ==
    IF n = 0 THEN off
    ELSE IF off >= Len(s) THEN off + n
    ELSE Advance(s, off + SeqLength(ByteAt(s, off)), n - 1)

(* The bytes [0, to) of s, whatever from is *)
BytesFromStart(s, from, to) == SubSeq(s, 1, to)

(* The bytes [from, to) of s *)
Bytes(s, from, to) == SubSeq(s, from + 1, to)

(* Variants of endsWith that never, or always, find the suffix *)
endsWithNever(str, suffix) == FALSE

endsWithAlways(str, suffix) == TRUE

endsWith(str, suffix) == str # <<>> /\ str[Len(str)] = suffix

InRange(c, lo, hi) == c >= lo /\ c <= hi

(* A boundary test that knows the ASCII punctuation only *)
isBoundaryAscii(c) ==
    InRange(c, 32, 47) \/ InRange(c, 58, 64) \/ InRange(c, 91, 96) \/ InRange(c, 123, 126)

isBoundary(c) ==
    InRange(c, 32, 47) \/ InRange(c, 58, 64) \/ InRange(c, 91, 96) \/ InRange(c, 123, 191)

---------------------------------------------------------------------------
(* Host text measurement                                                   *)

(* The font's advance of one code point, in pixels *)
CharAdvance(c) == IF c = SP THEN 1 ELSE 2

(* ImGui::CalcTextSize(text, text_end).x: the widest of the '\n'-separated  *)
(* runs of the text                                                         *)
RECURSIVE CalcTextSizeFrom(_, _, _, _)
CalcTextSizeFrom(s, off, lineWidth, best) ==
    IF off >= Len(s) THEN Max(best, lineWidth)
    ELSE LET c == CpAt(s, off)
             next == off + SeqLength(ByteAt(s, off))
         IN IF c = NL THEN CalcTextSizeFrom(s, next, 0, Max(best, lineWidth))
            ELSE CalcTextSizeFrom(s, next, lineWidth + CharAdvance(c), best)

CalcTextSizeX(s) == CalcTextSizeFrom(s, 0, 0, 0)

(* substringSizeX(s, start, length); length = NPOS is the default argument *)
substringSizeX(s, start, length) ==
    IF s = <<>> THEN 0
    ELSE LET stringStart == Advance(s, 0, start)
             stringEnd == IF length = NPOS THEN Len(s)
                          ELSE Advance(s, stringStart, Min(utf8Length(s), length))
         IN CalcTextSizeX(Bytes(s, stringStart, Min(stringEnd, Len(s))))

midpoint(a, b) == a + ((b - a) \div 2)

(* A hit test whose empty-range exit returns 0 instead of the line length *)
RECURSIVE getCharIndexExitZero(_, _, _, _)
getCharIndexExitZero(s, cursorPosX, start, end) ==
    IF cursorPosX < 0 THEN 0
    ELSE IF s = <<>> THEN 0
    ELSE IF end < start THEN 0
    ELSE LET midIdx == midpoint(start, end)
             widthToMid == substringSizeX(s, 0, midIdx + 1)
             widthToMidEx == substringSizeX(s, 0, midIdx)
         IN IF cursorPosX < widthToMidEx
            THEN getCharIndexExitZero(s, cursorPosX, start, SizeSub(midIdx, 1))
            ELSE IF cursorPosX > widthToMid
            THEN getCharIndexExitZero(s, cursorPosX, midIdx + 1, end)
            ELSE midIdx

(* getCharIndex(s, cursorPosX, start, end): the recursive binary search *)
RECURSIVE getCharIndex(_, _, _, _)
getCharIndex(s, cursorPosX, start, end) ==
    IF cursorPosX < 0 THEN 0
    ELSE IF s = <<>> THEN 0
    ELSE IF end < start THEN utf8Length(s)
    ELSE LET midIdx == midpoint(start, end)
             widthToMid == substringSizeX(s, 0, midIdx + 1)
             widthToMidEx == substringSizeX(s, 0, midIdx)
         IN IF cursorPosX < widthToMidEx
            THEN getCharIndex(s, cursorPosX, start, SizeSub(midIdx, 1))
            ELSE IF cursorPosX > widthToMid
            THEN getCharIndex(s, cursorPosX, midIdx + 1, end)
            ELSE midIdx

(* Whether some step of getCharIndex(s, cursorPosX, start, end) computes   *)
(* midIdx - 1 from midIdx = 0                                             *)
RECURSIVE getCharIndexUnderflows(_, _, _, _)
getCharIndexUnderflows(s, cursorPosX, start, end) ==
    IF cursorPosX < 0 THEN FALSE
    ELSE IF s = <<>> THEN FALSE
    ELSE IF end < start THEN FALSE
    ELSE LET midIdx == midpoint(start, end)
             widthToMid == substringSizeX(s, 0, midIdx + 1)
             widthToMidEx == substringSizeX(s, 0, midIdx)
         IN IF cursorPosX < widthToMidEx
            THEN midIdx = 0
                 \/ getCharIndexUnderflows(s, cursorPosX, start, SizeSub(midIdx, 1))
            ELSE IF cursorPosX > widthToMid
            THEN getCharIndexUnderflows(s, cursorPosX, midIdx + 1, end)
            ELSE FALSE

(* A wrapper whose initial bounds leave out the first character *)
getCharIndexOfFromOne(s, cursorPosX) == getCharIndex(s, cursorPosX, 1, utf8Length(s))

(* getCharIndex(s, cursorPosX): the wrapper providing the initial bounds *)
getCharIndexOf(s, cursorPosX) == getCharIndex(s, cursorPosX, 0, utf8Length(s))

---------------------------------------------------------------------------
(* Autoscroll                                                              *)

MaxDelta == 100     \* maxDelta
DeltaScale == 10    \* the factor of deltaScale

(* The scroll delta without the cap on the distance *)
getScrollDeltaUncapped(v, min, max, deltaTime) ==
    IF v < min THEN (-(min - v)) * (DeltaScale * deltaTime)
    ELSE IF v > max THEN (v - max) * (DeltaScale * deltaTime)
    ELSE 0

(* getScrollDelta(v, min, max) in a frame whose ImGui::GetIO().DeltaTime is  *)
(* deltaTime ticks; the result is in pixel ticks, computed exactly.          *)
getScrollDelta(v, min, max, deltaTime) ==
    IF v < min THEN Max(-(min - v), -MaxDelta) * (DeltaScale * deltaTime)
    ELSE IF v > max THEN Min(v - max, MaxDelta) * (DeltaScale * deltaTime)
    ELSE 0

---------------------------------------------------------------------------
(* Line segmentation                                                       *)

ImCharIsBlank(c) == c = SP \/ c = 9

IsWrapPunctuation(c) == c \in {46, 44, 59, 33, 63, 34}

(* The scan loop of ImFont::CalcWordWrapPositionA, the host primitive that   *)
(* wrapText calls.  st holds the loop's locals: s the scan position,         *)
(* prevWordEnd = -1 stands for NULL, done marks the break.                   *)

(* The locals after the character c of advance w at st.s is accounted for;   *)
(* nextS is the position after c.                                            *)
WrapAccount(st, c, w, nextS) ==
    IF ImCharIsBlank(c)
    THEN [st EXCEPT !.lineW = IF st.inside THEN st.lineW + st.blankW ELSE st.lineW,
                    !.blankW = (IF st.inside THEN 0 ELSE st.blankW) + w,
                    !.wordEnd = IF st.inside THEN st.s ELSE st.wordEnd,
                    !.inside = FALSE]
    ELSE [st EXCEPT !.wordW = IF st.inside THEN st.wordW + w ELSE 0,
                    !.wordEnd = IF st.inside THEN nextS ELSE st.wordEnd,
                    !.prevWordEnd = IF st.inside THEN st.prevWordEnd ELSE st.wordEnd,
                    !.lineW = IF st.inside THEN st.lineW
                              ELSE st.lineW + st.wordW + w + st.blankW,
                    !.blankW = IF st.inside THEN st.blankW ELSE 0,
                    !.inside = ~IsWrapPunctuation(c)]

(* The test that ends the scan: the line no longer fits wrapWidth.  s is the *)
(* position of the character just accounted for in m.                        *)
WrapFit(m, s, nextS, wrapWidth) ==
    IF m.lineW + m.wordW > wrapWidth
    THEN [m EXCEPT !.done = TRUE,
                   !.s = IF m.wordW < wrapWidth
                         THEN (IF m.prevWordEnd # -1 THEN m.prevWordEnd ELSE m.wordEnd)
                         ELSE s]
    ELSE [m EXCEPT !.s = nextS]

(* One iteration of the loop on the character c *)
WrapScanChar(wrapWidth, st, c, nextS) ==
    IF c = NL
    THEN [st EXCEPT !.s = nextS, !.lineW = 0, !.wordW = 0, !.blankW = 0, !.inside = TRUE]
    ELSE IF c = 13 THEN [st EXCEPT !.s = nextS]
    ELSE WrapFit(WrapAccount(st, c, CharAdvance(c), nextS), st.s, nextS, wrapWidth)

WrapScanStep(text, wrapWidth, st) ==
    WrapScanChar(wrapWidth, st, CpAt(text, st.s), st.s + SeqLength(ByteAt(text, st.s)))

RECURSIVE WrapScan(_, _, _)
WrapScan(text, wrapWidth, st) ==
    IF st.done \/ st.s >= Len(text) THEN st.s
    ELSE WrapScan(text, wrapWidth, WrapScanStep(text, wrapWidth, st))

(* The return of CalcWordWrapPositionA: a line always takes one character *)
WrapAtLeastOne(s, start, textLen) == IF s = start /\ start < textLen THEN s + 1 ELSE s

(* font->CalcWordWrapPositionA(1, text + start, textEnd, wrapWidth), as a byte *)
(* offset into text                                                           *)
CalcWordWrapPositionA(text, start, wrapWidth) ==
    WrapAtLeastOne(WrapScan(text, wrapWidth,
                       [s |-> start, lineW |-> 0, wordW |-> 0, blankW |-> 0,
                        wordEnd |-> start, prevWordEnd |-> -1, inside |-> TRUE,
                        done |-> FALSE]),
                   start, Len(text))

(* The byte *p for an offset p up to one past the span: at the end of the   *)
(* span it is the byte that follows the line in host memory.                *)
ByteOrTail(text, tail, off) == IF off < Len(text) THEN ByteAt(text, off) ELSE tail

RECURSIVE SkipBlanks(_, _)
SkipBlanks(text, off) ==
    IF off < Len(text) /\ ImCharIsBlank(ByteAt(text, off)) THEN SkipBlanks(text, off + 1) ELSE off

(* CalcWordWrapNextLineStartA(text + off, textEnd) *)
CalcWordWrapNextLineStartA(text, tail, off) ==
    LET p == SkipBlanks(text, off)
    IN IF ByteOrTail(text, tail, p) = NL THEN p + 1 ELSE p

(* The loop of wrapText from wrappedLineEnd = off.  The loop ends only when  *)
(* wrappedLineEnd = textEnd; a position past textEnd is reported as overrun. *)
RECURSIVE wrapTextLoop(_, _, _, _, _)

(* The body of the loop once CalcWordWrapPositionA has returned wrappedLineEnd *)
wrapTextBody(text, tail, wrapWidth, off, result, wrappedLineEnd) ==
    wrapTextLoop(text, tail, wrapWidth,
                 CalcWordWrapNextLineStartA(text, tail, wrappedLineEnd),
                 IF wrappedLineEnd - off # 0
                 THEN Append(result, [start |-> off, len |-> wrappedLineEnd - off])
                 ELSE result)

wrapTextLoop(text, tail, wrapWidth, off, result) ==
    IF off = Len(text) THEN [subs |-> result, overrun |-> FALSE]
    ELSE IF off > Len(text) THEN [subs |-> result, overrun |-> TRUE]
    ELSE wrapTextBody(text, tail, wrapWidth, off, result,
                      CalcWordWrapPositionA(text, off, wrapWidth))

(* wrapText returning the spans of the loop as they are *)
wrapTextResultAsIs(r) == r

(* The end of wrapText: text that produced no span gets one empty span *)
wrapTextResult(r) ==
    IF Len(r.subs) = 0 THEN [r EXCEPT !.subs = <<[start |-> 0, len |-> 0]>>] ELSE r

(* wrapText(text, wrapWidth, font): the spans [start, start + len) of text *)
wrapText(text, tail, wrapWidth) == wrapTextResult(wrapTextLoop(text, tail, wrapWidth, 0, <<>>))

(* The byte that follows a line in host memory: the lines of the example    *)
(* program are string literals, so it is the terminating NUL.               *)
LineTail == 0

(* getLineAtIdx(i); an index past the end reads whatever the host returns   *)
lineAt(ls, i, garbage) == IF i < Len(ls) THEN ls[i + 1] ELSE garbage

(* The text of a sub-line *)
SubLineString(ls, sub) == Bytes(ls[sub.wholeLineIndex + 1], sub.start, sub.start + sub.len)

(* The sub-lines of whole line i from the spans w of wrapText *)
subLinesOfSpans(w, i) ==
    [k \in 1 .. Len(w) |-> [start |-> w[k].start, len |-> w[k].len, wholeLineIndex |-> i]]

RECURSIVE getSubLinesFrom(_, _, _, _)
getSubLinesFrom(ls, wordWrap, wrapWidth, i) ==
    IF i >= Len(ls) THEN <<>>
    ELSE (IF wordWrap
          THEN subLinesOfSpans(wrapText(ls[i + 1], LineTail, wrapWidth).subs, i)
          ELSE <<[start |-> 0, len |-> Len(ls[i + 1]), wholeLineIndex |-> i]>>)
         \o getSubLinesFrom(ls, wordWrap, wrapWidth, i + 1)

(* TextSelect::getSubLines *)
getSubLines(ls, wordWrap, wrapWidth) == getSubLinesFrom(ls, wordWrap, wrapWidth, 0)

---------------------------------------------------------------------------
(* Selection state                                                         *)

Pos(x, y) == [x |-> x, y |-> y]

(* CursorPos(): both fields default to npos *)
InvalidPos == Pos(NPOS, NPOS)

(* isInvalid asking for both fields to be the sentinel *)
isInvalidBoth(p) == p.x = NPOS /\ p.y = NPOS

(* CursorPos::isInvalid *)
isInvalid(p) == p.x = NPOS \/ p.y = NPOS

(* TextSelect::hasSelection, on a pair of endpoints *)
hasSelectionOf(start, end) == ~isInvalid(start) /\ ~isInvalid(end)

(* getSelection returning the endpoints as stored *)
getSelectionStored(start, end) ==
    [startX |-> start.x, endX |-> end.x, startY |-> start.y, endY |-> end.y]

(* getSelection reordering the X positions but not the Y positions *)
getSelectionStoredY(start, end) ==
    [startX |-> IF start.y < end.y \/ (start.y = end.y /\ start.x < end.x)
                THEN start.x ELSE end.x,
     endX |-> IF start.y < end.y \/ (start.y = end.y /\ start.x < end.x)
              THEN end.x ELSE start.x,
     startY |-> start.y,
     endY |-> end.y]

(* TextSelect::getSelection, on a pair of endpoints *)
getSelectionOf(start, end) ==
    LET startBeforeEnd == start.y < end.y \/ (start.y = end.y /\ start.x < end.x)
    IN [startX |-> IF startBeforeEnd THEN start.x ELSE end.x,
        endX |-> IF startBeforeEnd THEN end.x ELSE start.x,
        startY |-> Min(start.y, end.y),
        endY |-> Max(start.y, end.y)]

---------------------------------------------------------------------------
(* Documents                                                               *)

Letter == 97        \* 'a'
EDiaeresis == 203   \* U+00CB, two bytes in UTF-8

(* All sequences of at most n elements of S *)
RECURSIVE SeqsUpTo(_, _)
SeqsUpTo(S, n) ==
    IF n = 0 THEN {<<>>}
    ELSE LET shorter == SeqsUpTo(S, n - 1)
         IN shorter \cup {Append(s, e) : s \in {q \in shorter : Len(q) = n - 1}, e \in S}

(* The lines of at most n code points over the alphabet A, UTF-8 encoded *)
LinesOver(A, n) == {Encode(cps) : cps \in SeqsUpTo(A, n)}

(* The lines of the pure-function and single-line specifications *)
TextLines == LinesOver({Letter, SP, EDiaeresis, NL}, MaxLen)

(* Documents of one line *)
LineDocs == {<<l>> : l \in TextLines}

(* The lines "abc" and "defg" of the shift-click scenario *)
ScenarioDoc == <<<<97, 98, 99>>, <<100, 101, 102, 103>>>>

(* The documents of the widget specification: at most MaxLines lines, each  *)
(* empty or the two words "a b"                                             *)
Docs == SeqsUpTo({<<>>, <<Letter, SP, Letter + 1>>}, MaxLines)

(* The documents of a host whose content changes: up to MaxLines lines "a"  *)
HostDocs == SeqsUpTo({<<Letter>>}, MaxLines)

(* The documents of the programmatic specification: any lines, some ending  *)
(* in a newline                                                             *)
ApiDocs == SeqsUpTo(LinesOver({Letter, NL}, 2) \cup {Encode(<<EDiaeresis, NL>>)}, MaxLines)

---------------------------------------------------------------------------
(* TextSelect::handleMouseDown                                             *)

(* The loop that finds the sub-line under the cursor: i is the loop index,  *)
(* the result is subY.                                                      *)
RECURSIVE FindSubY(_, _, _, _, _)
FindSubY(subLines, mouseY, i, subY, accumulatedHeight) ==
    IF i >= Len(subLines) \/ mouseY < accumulatedHeight THEN subY
    ELSE FindSubY(subLines, mouseY, i + 1, subY + 1,
                  accumulatedHeight + TextHeight
                  + (IF subLines[i + 1].wholeLineIndex # subLines[i].wholeLineIndex
                     THEN ItemSpacing ELSE 0))

(* A position whose character index is the one inside the sub-line *)
pointerPosInSubLine(ls, subLines, mx, my) ==
    [x |-> getCharIndexOf(SubLineString(ls, subLines[FindSubY(subLines, my, 1, 0, TextHeight) + 1]), mx),
     y |-> subLines[FindSubY(subLines, my, 1, 0, TextHeight) + 1].wholeLineIndex,
     subY |-> FindSubY(subLines, my, 1, 0, TextHeight)]

(* The first half of handleMouseDown: the position (wholeX, wholeY) under   *)
(* the mouse at (mx, my) = ImGui::GetMousePos() - cursorPosStart, for a     *)
(* non-empty list of sub-lines                                              *)
pointerPos(ls, subLines, mx, my) ==
    LET subY == FindSubY(subLines, my, 1, 0, TextHeight)
        sub == subLines[subY + 1]
        currentSubLine == SubLineString(ls, sub)
        wholeY == sub.wholeLineIndex
        currentWholeLine == ls[wholeY + 1]
        charsInWholeLineBeforeSubLine == utf8Length(Bytes(currentWholeLine, 0, sub.start))
        wholeX == getCharIndexOf(currentSubLine, mx) + charsInWholeLineBeforeSubLine
    IN [x |-> wholeX, y |-> wholeY, subY |-> subY]

(* *it for a utf8::unchecked::iterator standing at character index idx of s; *)
(* at the end of the line it decodes the byte that follows the span.         *)
CharAtIndex(s, tail, idx) ==
    LET off == Advance(s, 0, idx)
    IN IF off < Len(s) THEN CpAt(s, off) ELSE tail

(* Double click, scan to the left: the last selectStart.x assigned *)
RECURSIVE ScanLeft(_, _, _, _, _, _)
ScanLeft(s, tail, wholeX, cur, startInv, last) ==
    IF startInv > wholeX THEN last
    ELSE IF isBoundary(CharAtIndex(s, tail, wholeX - startInv)) # cur THEN last
    ELSE ScanLeft(s, tail, wholeX, cur, startInv + 1, wholeX - startInv)

(* A double click whose scan to the right stops at the clicked character *)
ScanRightAtClick(s, tail, cur, end, last) == end

(* Double click, scan to the right: the last selectEnd.x assigned *)
RECURSIVE ScanRight(_, _, _, _, _)
ScanRight(s, tail, cur, end, last) ==
    IF end > utf8Length(s) THEN last
    ELSE IF isBoundary(CharAtIndex(s, tail, end)) # cur THEN end
    ELSE ScanRight(s, tail, cur, end + 1, end)

(* A triple click that always ends the selection at the end of the line *)
tripleClickToLineEnd(ls, wholeY) ==
    [start |-> Pos(0, wholeY), end |-> Pos(utf8Length(ls[wholeY + 1]), wholeY)]

(* A triple click that ends the selection on the next line even when there *)
(* is none                                                                 *)
tripleClickPastLastLine(ls, wholeY) ==
    [start |-> Pos(0, wholeY), end |-> Pos(0, SizeAdd(wholeY, 1))]

(* mouseClicks % 3 == 0: the whole line *)
tripleClick(ls, wholeY) ==
    LET atLastLine == wholeY = SizeSub(Len(ls), 1)
    IN [start |-> Pos(0, wholeY),
        end |-> Pos(IF atLastLine THEN utf8Length(ls[wholeY + 1]) ELSE 0,
                    IF atLastLine THEN wholeY ELSE SizeAdd(wholeY, 1))]

(* The two scans of a double click from the class cur of the clicked character *)
doubleClickScan(currentWholeLine, start, end, wholeX, wholeY, cur) ==
    [start |-> Pos(ScanLeft(currentWholeLine, LineTail, wholeX, cur, 0, start.x), wholeY),
     end |-> Pos(ScanRight(currentWholeLine, LineTail, cur, wholeX, end.x), wholeY)]

(* mouseClicks % 2 == 0: the word *)
doubleClick(currentWholeLine, start, end, wholeX, wholeY) ==
    doubleClickScan(currentWholeLine, start, end, wholeX, wholeY,
                    isBoundary(CharAtIndex(currentWholeLine, LineTail, wholeX)))

(* A shift click that extends the selection without giving it a start *)
shiftClickFromStored(start, wholeX, wholeY) ==
    [start |-> start, end |-> Pos(wholeX, wholeY)]

(* A single click with shift held: from the start to the click *)
shiftClick(start, wholeX, wholeY) ==
    [start |-> IF isInvalid(start) THEN Pos(0, 0) ELSE start,
     end |-> Pos(wholeX, wholeY)]

(* A single click that starts the selection at the start of the line *)
singleClickAtLineStart(wholeX, wholeY) ==
    [start |-> Pos(0, wholeY), end |-> Pos(NPOS, NPOS)]

(* A single click: the start position, the end position invalidated *)
singleClick(wholeX, wholeY) ==
    [start |-> Pos(wholeX, wholeY), end |-> Pos(NPOS, NPOS)]

(* A dispatch that knows the click counts 3 and 2 only *)
mouseDownDispatchExact(ls, start, end, in, wholeX, wholeY) ==
    IF in.clicks > 0
    THEN IF in.clicks = 3 THEN tripleClick(ls, wholeY)
         ELSE IF in.clicks = 2 THEN doubleClick(ls[wholeY + 1], start, end, wholeX, wholeY)
         ELSE IF in.shift THEN shiftClick(start, wholeX, wholeY)
         ELSE singleClick(wholeX, wholeY)
    ELSE IF in.dragging
    THEN [start |-> start, end |-> Pos(wholeX, wholeY)]
    ELSE [start |-> start, end |-> end]

(* The second half of handleMouseDown: the click-count dispatch, giving the *)
(* new endpoints.  in is the frame's input.                                 *)
mouseDownDispatch(ls, start, end, in, wholeX, wholeY) ==
    IF in.clicks > 0
    THEN IF in.clicks % 3 = 0 THEN tripleClick(ls, wholeY)
         ELSE IF in.clicks % 2 = 0 THEN doubleClick(ls[wholeY + 1], start, end, wholeX, wholeY)
         ELSE IF in.shift THEN shiftClick(start, wholeX, wholeY)
         ELSE singleClick(wholeX, wholeY)
    ELSE IF in.dragging
    THEN [start |-> start, end |-> Pos(wholeX, wholeY)]
    ELSE [start |-> start, end |-> end]

---------------------------------------------------------------------------
(* TextSelect::drawSelection                                               *)

(* utf8::distance(wholeLine.data(), p): the character index of byte offset p *)
CharIndexOfOffset(s, off) == Distance(s, 0, off)

(* The loop over the sub-lines from index k (1-based), with the running     *)
(* accumulatedHeight; the result is the rectangles drawn, in order.         *)
RECURSIVE drawLoop(_, _, _, _, _)
drawLoop(ls, subLines, sel, k, accumulatedHeight) ==
    IF k > Len(subLines) THEN <<>>
    ELSE
      LET subLine == subLines[k]
          wholeLine == ls[subLine.wholeLineIndex + 1]
          str == SubLineString(ls, subLine)
          subLineStartX == CharIndexOfOffset(wholeLine, subLine.start)
          subLineEndX == CharIndexOfOffset(wholeLine, subLine.start + subLine.len)
          minY == accumulatedHeight
          maxY == accumulatedHeight + TextHeight
                  + (IF subLine.start + subLine.len = Len(wholeLine) THEN ItemSpacing ELSE 0)
          isStartSubLine == /\ subLine.wholeLineIndex = sel.startY
                            /\ subLineStartX <= sel.startX
                            /\ sel.startX <= subLineEndX
          isEndSubLine == /\ subLine.wholeLineIndex = sel.endY
                          /\ subLineStartX <= sel.endX
                          /\ sel.endX <= subLineEndX
          minX == IF isStartSubLine
                  THEN substringSizeX(str, 0, SizeSub(sel.startX, Min(subLineStartX, sel.startX)))
                  ELSE 0
          maxX == IF isEndSubLine
                  THEN substringSizeX(str, 0, SizeSub(sel.endX, Min(subLineStartX, sel.endX)))
                  ELSE substringSizeX(str, 0, NPOS) + CharAdvance(SP)
      IN IF \/ sel.startY > subLine.wholeLineIndex
            \/ (subLine.wholeLineIndex = sel.startY /\ sel.startX >= subLineEndX)
         THEN drawLoop(ls, subLines, sel, k + 1, maxY)
         ELSE IF \/ sel.endY < subLine.wholeLineIndex
                 \/ (subLine.wholeLineIndex = sel.endY /\ sel.endX < subLineStartX)
         THEN <<>>
         ELSE <<[line |-> subLine.wholeLineIndex, sub |-> k - 1,
                 minX |-> minX, minY |-> minY, maxX |-> maxX, maxY |-> maxY]>>
              \o drawLoop(ls, subLines, sel, k + 1, maxY)

---------------------------------------------------------------------------
(* Per-document tables.  The sub-lines of a document, the position under    *)
(* each pixel and the rectangles of each selection depend on the content    *)
(* alone; they are computed once per document of the model and looked up    *)
(* by the operators below.                                                  *)

(* The documents the pointer-driven specifications run over *)
PointerDocs == Docs \cup LineDocs \cup HostDocs \cup {ScenarioDoc}

RECURSIVE SumHeights(_, _)
SumHeights(subLines, k) ==
    IF k > Len(subLines) THEN 0
    ELSE TextHeight
         + (IF k = Len(subLines) \/ subLines[k + 1].wholeLineIndex # subLines[k].wholeLineIndex
            THEN ItemSpacing ELSE 0)
         + SumHeights(subLines, k + 1)

RECURSIVE MaxWidth(_, _)
MaxWidth(ls, k) ==
    IF k > Len(ls) THEN 0 ELSE Max(CalcTextSizeX(ls[k]), MaxWidth(ls, k + 1))

(* The pixels the pointer ranges over: the text area and one pixel around it *)
PointerXs(ls) == -1 .. (MaxWidth(ls, 1) + 1)
PointerYs(subLines) == -1 .. SumHeights(subLines, 1)

(* The character positions of a document, the line ends included *)
PositionsOf(ls) == {Pos(x, y - 1) : x \in 0 .. MaxLen + 1, y \in 1 .. Len(ls)}

SubLinesTable == [ls \in PointerDocs, w \in BOOLEAN |-> getSubLines(ls, w, WrapWidth)]

(* getSubLines() on the content ls *)
subLinesOf(ls, wordWrap) == SubLinesTable[ls, wordWrap]

PointerTable ==
    [ls \in PointerDocs \ {<<>>}, w \in BOOLEAN |->
        [mx \in PointerXs(ls), my \in PointerYs(getSubLines(ls, w, WrapWidth)) |->
            pointerPos(ls, getSubLines(ls, w, WrapWidth), mx, my)]]

DrawTable ==
    [ls \in PointerDocs, w \in BOOLEAN |->
        [s \in PositionsOf(ls), e \in PositionsOf(ls) |->
            drawLoop(ls, getSubLines(ls, w, WrapWidth), getSelectionOf(s, e), 1, 0)]]

(* TextSelect::handleMouseDown(subLines, cursorPosStart): the new endpoints, *)
(* the position resolved and the line read                                   *)
handleMouseDownAt(p, d) ==
    [start |-> d.start, end |-> d.end, x |-> p.x, y |-> p.y, sub |-> p.subY,
     calls |-> {p.y}]

handleMouseDownOn(ls, start, end, in, p) ==
    handleMouseDownAt(p, mouseDownDispatch(ls, start, end, in, p.x, p.y))

handleMouseDown(ls, wordWrap, start, end, in) ==
    IF Len(subLinesOf(ls, wordWrap)) = 0
    THEN [start |-> start, end |-> end, x |-> NPOS, y |-> NPOS, sub |-> NPOS,
          calls |-> {}]
    ELSE handleMouseDownOn(ls, start, end, in, PointerTable[ls, wordWrap][in.mx, in.my])

(* TextSelect::drawSelection(subLines, cursorPosStart): the rectangles, as  *)
(* offsets from cursorPosStart                                              *)
drawSelection(ls, wordWrap, start, end) ==
    IF ~hasSelectionOf(start, end) THEN <<>>
    ELSE IF \/ getSelectionOf(start, end).startY >= Len(ls)
            \/ getSelectionOf(start, end).endY >= Len(ls)
    THEN <<>>
    ELSE DrawTable[ls, wordWrap][start, end]

---------------------------------------------------------------------------
(* TextSelect::handleScrolling                                             *)

(* The host's window as handleScrolling reads it, with the window at the    *)
(* origin and the text starting there, so that the pointer of the frame is  *)
(* its mouse position: which window holds the active item, which item is    *)
(* active, the size of the window and the frame delta time.                 *)
WindowWidth == CalcTextSizeX(<<Letter>>)    \* GetWindowSize().x: one letter wide
WindowHeight == TextHeight + ItemSpacing    \* GetWindowSize().y: one line high

Window(activeWindow, activeID, deltaTime) ==
    [activeWindow |-> activeWindow, activeID |-> activeID,
     width |-> WindowWidth, height |-> WindowHeight, deltaTime |-> deltaTime]

(* A frame in which no window holds an active item *)
NoWindow == Window("none", "other", 1)

(* The SetScrollX / SetScrollY calls for the two deltas *)
scrollCommands(scrollXDelta, scrollYDelta) ==
    (IF scrollXDelta # 0 THEN {[axis |-> "x", delta |-> scrollXDelta]} ELSE {})
        \cup (IF scrollYDelta # 0 THEN {[axis |-> "y", delta |-> scrollYDelta]} ELSE {})

(* handleScrolling that scrolls whatever item or window is active *)
handleScrollingUnguarded(mx, my, win) ==
    scrollCommands(getScrollDelta(mx, 0, win.width, win.deltaTime),
                   getScrollDelta(my, 0, win.height, win.deltaTime))

(* TextSelect::handleScrolling: the scroll calls it issues *)
handleScrolling(mx, my, win) ==
    IF \/ win.activeWindow = "none"
       \/ win.activeWindow # "current"
       \/ (win.activeID = "scrollX" \/ win.activeID = "scrollY")
    THEN {}
    ELSE scrollCommands(getScrollDelta(mx, 0, win.width, win.deltaTime),
                        getScrollDelta(my, 0, win.height, win.deltaTime))

(* The call of handleScrolling in update: button down, window not hovered *)
updateScrolling(in) ==
    IF in.down /\ ~in.hovered THEN handleScrolling(in.mx, in.my, in.win) ELSE {}

---------------------------------------------------------------------------
(* TextSelect::copy and TextSelect::selectAll                              *)

(* The loop of copy over the lines i..endY.  garbage is what the host's     *)
(* accessor returns for an index past the end.  threw: line.substr() was    *)
(* given a start past the end of the line (std::out_of_range).              *)
RECURSIVE copyLoop(_, _, _, _)
copyLoop(ls, sel, i, garbage) ==
    IF i > sel.endY THEN [text |-> <<>>, threw |-> FALSE]
    ELSE LET subStart == IF i = sel.startY THEN sel.startX ELSE 0
             line == lineAt(ls, i, garbage)
             stringStart == Advance(line, 0, subStart)
             stringEnd == IF i = sel.endY
                          THEN Advance(line, stringStart, SizeSub(sel.endX, subStart))
                          ELSE Len(line)
             lineToAdd == Bytes(line, stringStart, Min(stringEnd, Len(line)))
             newline == IF ~endsWith(lineToAdd, NL) /\ i < sel.endY THEN <<NL>> ELSE <<>>
             rest == copyLoop(ls, sel, i + 1, garbage)
         IN IF stringStart > Len(line) THEN [text |-> <<>>, threw |-> TRUE]
            ELSE [text |-> lineToAdd \o newline \o rest.text, threw |-> rest.threw]

(* copy setting the clipboard to the empty text when nothing is selected *)
copyEmptyWithoutSelection(ls, start, end, garbage) ==
    IF ~hasSelectionOf(start, end) THEN [writes |-> << <<>> >>, calls |-> {}]
    ELSE [writes |-> IF copyLoop(ls, getSelectionOf(start, end),
                                 getSelectionOf(start, end).startY, garbage).threw
                     THEN <<>>
                     ELSE <<copyLoop(ls, getSelectionOf(start, end),
                                     getSelectionOf(start, end).startY, garbage).text>>,
          calls |-> getSelectionOf(start, end).startY .. getSelectionOf(start, end).endY]

(* TextSelect::copy: the SetClipboardText calls it issues and the indices   *)
(* it passes to getLineAtIdx                                                *)
copy(ls, start, end, garbage) ==
    IF ~hasSelectionOf(start, end) THEN [writes |-> <<>>, calls |-> {}]
    ELSE LET sel == getSelectionOf(start, end)
             r == copyLoop(ls, sel, sel.startY, garbage)
         IN [writes |-> IF r.threw THEN <<>> ELSE <<r.text>>,
             calls |-> sel.startY .. sel.endY]

(* selectAll ending the selection at the start of the last line *)
selectAllToLineStart(ls, garbage) ==
    [start |-> Pos(0, 0), end |-> Pos(0, SizeSub(Len(ls), 1)),
     calls |-> {SizeSub(Len(ls), 1)}]

(* TextSelect::selectAll *)
selectAll(ls, garbage) ==
    LET lastLineIdx == SizeSub(Len(ls), 1)
        lastLine == lineAt(ls, lastLineIdx, garbage)
    IN [start |-> Pos(0, 0), end |-> Pos(utf8Length(lastLine), lastLineIdx),
        calls |-> {lastLineIdx}]

---------------------------------------------------------------------------
(* TextSelect::update                                                      *)

(* What update does with the frame input in: the new fields and the output  *)
(* commands of the frame.                                                   *)
(* The end of update with a copy shortcut that drops the selection it copied *)
updateAfterMouseCopyClears(ls, wordWrap, flag, in, garbage, m) ==
    [start |-> IF in.key = "A" THEN selectAll(ls, garbage).start
               ELSE IF in.key = "C" THEN InvalidPos ELSE m.start,
     end |-> IF in.key = "A" THEN selectAll(ls, garbage).end
             ELSE IF in.key = "C" THEN InvalidPos ELSE m.end,
     flag |-> flag,
     x |-> m.x, y |-> m.y, sub |-> m.sub,
     rects |-> drawSelection(ls, wordWrap, m.start, m.end),
     scrolls |-> updateScrolling(in),
     writes |-> IF in.key = "C" THEN copy(ls, m.start, m.end, garbage).writes ELSE <<>>,
     calls |-> (0 .. Len(ls) - 1) \cup m.calls
               \cup (IF in.key = "A" THEN selectAll(ls, garbage).calls ELSE {})
               \cup (IF in.key = "C" THEN copy(ls, m.start, m.end, garbage).calls ELSE {})]

(* The rest of update once handleMouseDown has run (m is its result, or the *)
(* fields untouched): drawSelection, then the two shortcuts.                *)
updateAfterMouse(ls, wordWrap, flag, in, garbage, m) ==
    LET drawn == drawSelection(ls, wordWrap, m.start, m.end)
        all == selectAll(ls, garbage)
        copied == copy(ls, m.start, m.end, garbage)
    IN [start |-> IF in.key = "A" THEN all.start ELSE m.start,
        end |-> IF in.key = "A" THEN all.end ELSE m.end,
        flag |-> flag,
        x |-> m.x, y |-> m.y, sub |-> m.sub,
        rects |-> drawn,
        scrolls |-> updateScrolling(in),
        writes |-> IF in.key = "C" THEN copied.writes ELSE <<>>,
        calls |-> (0 .. Len(ls) - 1) \cup m.calls
                  \cup (IF in.key = "A" THEN all.calls ELSE {})
                  \cup (IF in.key = "C" THEN copied.calls ELSE {})]

(* The flag set by a press wherever the pointer is *)
mouseFlagAnyClick(flag, clicked, released, hovered) ==
    IF released THEN FALSE ELSE IF clicked THEN TRUE ELSE flag

(* shouldHandleMouseDown after the click and release tests of update *)
mouseFlag(flag, clicked, released, hovered) ==
    IF released THEN FALSE ELSE IF clicked /\ hovered THEN TRUE ELSE flag

(* update calling handleMouseDown only while the window is hovered *)
updateWithFlagHovered(ls, wordWrap, start, end, flag, in, garbage) ==
    updateAfterMouse(ls, wordWrap, flag, in, garbage,
                     IF in.down /\ flag /\ in.hovered
                     THEN handleMouseDown(ls, wordWrap, start, end, in)
                     ELSE [start |-> start, end |-> end,
                           x |-> NPOS, y |-> NPOS, sub |-> NPOS, calls |-> {}])

(* update once shouldHandleMouseDown has its value flag for the frame *)
updateWithFlag(ls, wordWrap, start, end, flag, in, garbage) ==
    updateAfterMouse(ls, wordWrap, flag, in, garbage,
                     IF in.down /\ flag
                     THEN handleMouseDown(ls, wordWrap, start, end, in)
                     ELSE [start |-> start, end |-> end,
                           x |-> NPOS, y |-> NPOS, sub |-> NPOS, calls |-> {}])

(* What update does with the frame input in: the new fields and the output  *)
(* commands of the frame.                                                   *)
update(ls, wordWrap, start, end, flag, prevDown, in, garbage) ==
    updateWithFlag(ls, wordWrap, start, end,
                   mouseFlag(flag, in.down /\ ~prevDown, ~in.down /\ prevDown, in.hovered),
                   in, garbage)

---------------------------------------------------------------------------
(* Inputs                                                                  *)

Frame(down, clicks, shift, dragging, mx, my, hovered, key) ==
    [down |-> down, clicks |-> clicks, shift |-> shift, dragging |-> dragging,
     mx |-> mx, my |-> my, hovered |-> hovered, key |-> key, win |-> NoWindow]

(* The inputs one frame can present to update(), given the button state of  *)
(* the frame before.  env names what the environment of a specification     *)
(* offers: the values of IsWindowHovered, the shortcuts pressed, whether    *)
(* shift is ever held, the click counts, and whether shift is also offered  *)
(* where the dispatch does not come to read it.  An input update() does not read in the frame (the   *)
(* click count and the pointer when handleMouseDown is not called, shift on *)
(* a double or triple click, the pointer of a held frame that is no drag,   *)
(* IsWindowHovered on a frame without a click) is left at a fixed value.    *)
UpFrames(env) ==
    {Frame(FALSE, 0, FALSE, FALSE, 0, 0, TRUE, k) : k \in env.keys}

PressFrames(env, flag, xs, ys) ==
    UNION {IF h \/ flag
           THEN {Frame(TRUE, cs[1], cs[2], FALSE, mx, my, h, k) :
                    cs \in {p \in env.clicks \X env.shift :
                               p[2] => (env.anyShift \/ (p[1] % 3 # 0 /\ p[1] % 2 # 0))},
                    mx \in xs, my \in ys, k \in env.keys}
           ELSE {Frame(TRUE, 1, FALSE, FALSE, 0, 0, h, k) : k \in env.keys}
           : h \in env.hovered}

HoldFrames(env, flag, xs, ys) ==
    IF flag
    THEN {Frame(TRUE, 0, FALSE, TRUE, mx, my, TRUE, k) :
             mx \in xs, my \in ys, k \in env.keys}
         \cup {Frame(TRUE, 0, FALSE, FALSE, 0, 0, TRUE, k) : k \in env.keys}
    ELSE {Frame(TRUE, 0, FALSE, d, 0, 0, TRUE, k) : d \in BOOLEAN, k \in env.keys}

FrameInputs(env, prevDown, flag, ls, wordWrap) ==
    LET xs == PointerXs(ls)
        ys == PointerYs(subLinesOf(ls, wordWrap))
    IN UpFrames(env)
       \cup (IF prevDown THEN HoldFrames(env, flag, xs, ys)
             ELSE PressFrames(env, flag, xs, ys))

(* Any host: the window may or may not be hovered, either shortcut may fire *)
AnyHost == [hovered |-> BOOLEAN, keys |-> {"none", "A", "C"}, shift |-> BOOLEAN,
            clicks |-> 1 .. MaxClicks, anyShift |-> FALSE]

(* A host whose window is always hovered and whose shortcuts never fire *)
PointerOnly == [hovered |-> {TRUE}, keys |-> {"none"}, shift |-> BOOLEAN,
                clicks |-> 1 .. MaxClicks, anyShift |-> FALSE]

(* A host of repeated clicks, with shift held or not on every one of them *)
ClickHost == [hovered |-> {TRUE}, keys |-> {"none"}, shift |-> BOOLEAN,
              clicks |-> 1 .. ManyClicks, anyShift |-> TRUE]

(* Values a host accessor may return for an index past the end *)
GarbageLines == {<<>>, <<Letter>>}

GarbageFor(needed) == IF needed THEN GarbageLines ELSE {<<>>}

NoEvent(op) == [op |-> op, clicks |-> 0, shift |-> FALSE, dragging |-> FALSE,
                hovered |-> FALSE, x |-> NPOS, y |-> NPOS, sub |-> NPOS, key |-> "none"]

NoProbe == [fn |-> "none"]

---------------------------------------------------------------------------
(* Actions                                                                 *)

(* What a call of update() on the frame input in does to the widget and *)
(* the commands it issues                                               *)
updateCall(in, garbage) ==
    \E u \in {update(lines, enableWordWrap, selectStart, selectEnd,
                    shouldHandleMouseDown, mouseDown, in, garbage)} :
       /\ selectStart' = u.start
       /\ selectEnd' = u.end
       /\ shouldHandleMouseDown' = u.flag
       /\ mouseDown' = in.down
       /\ ev' = [op |-> "update", clicks |-> in.clicks, shift |-> in.shift,
                 dragging |-> in.dragging, hovered |-> in.hovered,
                 x |-> u.x, y |-> u.y, sub |-> u.sub,
                 key |-> in.key]
       /\ clipWrites' = u.writes
       /\ lineAtCalls' = u.calls
       /\ rects' = u.rects
       /\ scrolls' = u.scrolls
       /\ UNCHANGED <<lines, enableWordWrap>>

(* One frame in which the host calls update() *)
Update(in, garbage) == updateCall(in, garbage) /\ UNCHANGED probe

(* One frame in which the host calls update(), the frame's input kept *)
UpdateOn(in, garbage) == updateCall(in, garbage) /\ probe' = [fn |-> "update", in |-> in]

(* The frames a host of kind env can present in the current state *)
Frames(env) ==
    FrameInputs(env, mouseDown, shouldHandleMouseDown, lines, enableWordWrap)

CopyNeedsGarbage(start, end) ==
    hasSelectionOf(start, end) /\ getSelectionOf(start, end).endY >= Len(lines)

UpdateNeedsGarbage(in) ==
    \/ in.key = "A" /\ lines = <<>>
    \/ in.key = "C" /\ ~in.down /\ CopyNeedsGarbage(selectStart, selectEnd)

(* The host calls copy() (the context menu of the example program) *)
Copy(garbage) ==
    LET c == copy(lines, selectStart, selectEnd, garbage)
    IN /\ ev' = NoEvent("copy")
       /\ clipWrites' = c.writes
       /\ lineAtCalls' = c.calls
       /\ rects' = <<>>
       /\ scrolls' = {}
       /\ UNCHANGED <<lines, enableWordWrap, selectStart, selectEnd,
                      shouldHandleMouseDown, mouseDown, probe>>

(* The host calls selectAll() *)
SelectAll(garbage) ==
    LET a == selectAll(lines, garbage)
    IN /\ selectStart' = a.start
       /\ selectEnd' = a.end
       /\ ev' = NoEvent("selectAll")
       /\ clipWrites' = <<>>
       /\ lineAtCalls' = a.calls
       /\ rects' = <<>>
       /\ scrolls' = {}
       /\ UNCHANGED <<lines, enableWordWrap, shouldHandleMouseDown, mouseDown, probe>>

(* The host calls clearSelection() *)
ClearSelection ==
    /\ selectStart' = InvalidPos
    /\ selectEnd' = InvalidPos
    /\ ev' = NoEvent("clear")
    /\ clipWrites' = <<>>
    /\ lineAtCalls' = {}
    /\ rects' = <<>>
    /\ scrolls' = {}
    /\ UNCHANGED <<lines, enableWordWrap, shouldHandleMouseDown, mouseDown, probe>>

(* The host replaces the content its accessors serve *)
SetLines(ls) ==
    /\ ls # lines
    /\ lines' = ls
    /\ ev' = NoEvent("setLines")
    /\ clipWrites' = <<>>
    /\ lineAtCalls' = {}
    /\ rects' = <<>>
    /\ scrolls' = {}
    /\ UNCHANGED <<enableWordWrap, selectStart, selectEnd, shouldHandleMouseDown,
                   mouseDown, probe>>

(* The state after construction over the content ls *)
Constructed(ls, wordWrap) ==
    /\ lines = ls
    /\ enableWordWrap = wordWrap
    /\ selectStart = InvalidPos
    /\ selectEnd = InvalidPos
    /\ shouldHandleMouseDown = FALSE
    /\ mouseDown = FALSE
    /\ ev = NoEvent("init")
    /\ clipWrites = <<>>
    /\ lineAtCalls = {}
    /\ rects = <<>>
    /\ scrolls = {}

---------------------------------------------------------------------------
(* The widget over fixed content, driven by any host                       *)

Init == probe = NoProbe /\ \E ls \in Docs, wordWrap \in BOOLEAN : Constructed(ls, wordWrap)

Next ==
    \/ \E in \in Frames(AnyHost) : \E g \in GarbageFor(UpdateNeedsGarbage(in)) : Update(in, g)
    \/ \E g \in GarbageFor(CopyNeedsGarbage(selectStart, selectEnd)) : Copy(g)
    \/ \E g \in GarbageFor(lines = <<>>) : SelectAll(g)
    \/ ClearSelection

Spec == Init /\ [][Next]_vars

---------------------------------------------------------------------------
(* The programmatic interface alone, over any content                      *)

InitApi == probe = NoProbe /\ \E ls \in ApiDocs : Constructed(ls, FALSE)

NextApi ==
    \/ \E g \in GarbageFor(lines = <<>>) : SelectAll(g)
    \/ \E g \in GarbageFor(CopyNeedsGarbage(selectStart, selectEnd)) : Copy(g)
    \/ ClearSelection

SpecApi == InitApi /\ [][NextApi]_vars

---------------------------------------------------------------------------
(* The pointer over a single line of any text                              *)

InitLine == probe = NoProbe /\ \E ls \in LineDocs : Constructed(ls, FALSE)

NextLine ==
    \/ \E in \in Frames(PointerOnly) : Update(in, <<>>)
    \/ ClearSelection

SpecLine == InitLine /\ [][NextLine]_vars

---------------------------------------------------------------------------
(* A host whose content changes between frames                             *)

InitHost == probe = NoProbe /\ \E ls \in HostDocs, wordWrap \in BOOLEAN : Constructed(ls, wordWrap)

NextHost ==
    \/ \E in \in Frames(PointerOnly) : Update(in, <<>>)
    \/ \E g \in GarbageFor(CopyNeedsGarbage(selectStart, selectEnd)) : Copy(g)
    \/ \E g \in GarbageFor(lines = <<>>) : SelectAll(g)
    \/ \E ls \in HostDocs : SetLines(ls)

SpecHost == InitHost /\ [][NextHost]_vars

---------------------------------------------------------------------------
(* The example of two lines "abc" and "defg"                               *)

InitScenario == probe = NoProbe /\ Constructed(ScenarioDoc, FALSE)

NextScenario ==
    \/ \E in \in Frames(PointerOnly) : Update(in, <<>>)
    \/ Copy(<<>>)

SpecScenario == InitScenario /\ [][NextScenario]_vars

---------------------------------------------------------------------------
(* getCharIndex as a function of the pixel                                 *)

(* The pixels probed: from left of the text to right of the widest line *)
ProbeXs == -1 .. (2 * MaxLen + 1)

InitHit ==
    /\ Constructed(<<>>, FALSE)
    /\ \E s \in TextLines :
          probe = [fn |-> "getCharIndex", s |-> s, x |-> -1, r |-> getCharIndexOf(s, -1),
                   underflow |-> getCharIndexUnderflows(s, -1, 0, utf8Length(s))]

(* The pointer moves right along the line and the hit test runs again *)
HitTest(x) ==
    /\ probe.fn = "getCharIndex"
    /\ x > probe.x
    /\ probe' = [probe EXCEPT !.x = x, !.r = getCharIndexOf(probe.s, x),
                              !.underflow = getCharIndexUnderflows(probe.s, x, 0,
                                                                   utf8Length(probe.s))]
    /\ UNCHANGED <<lines, enableWordWrap, selectStart, selectEnd, shouldHandleMouseDown,
                   mouseDown, ev, clipWrites, lineAtCalls, rects, scrolls>>

NextHit == \E x \in ProbeXs : HitTest(x)

SpecHit == InitHit /\ [][NextHit]_vars

---------------------------------------------------------------------------
(* getSubLines as a function of the content                                *)

(* The lines segmented: up to MaxLen characters, blanks and newlines among  *)
(* them                                                                     *)
WrapLines == LinesOver({Letter, SP, NL}, MaxLen)

InitWrap ==
    /\ Constructed(<<>>, FALSE)
    /\ \E w \in BOOLEAN :
          probe = [fn |-> "getSubLines", ls |-> <<>>, wordWrap |-> w,
                   r |-> getSubLines(<<>>, w, WrapWidth)]

(* The host serves one more line and the content is segmented again *)
Segment(l) ==
    /\ probe.fn = "getSubLines"
    /\ Len(probe.ls) < MaxLines
    /\ probe' = [probe EXCEPT !.ls = Append(probe.ls, l),
                              !.r = getSubLines(Append(probe.ls, l), probe.wordWrap, WrapWidth)]
    /\ UNCHANGED <<lines, enableWordWrap, selectStart, selectEnd, shouldHandleMouseDown,
                   mouseDown, ev, clipWrites, lineAtCalls, rects, scrolls>>

NextWrap == \E l \in WrapLines : Segment(l)

SpecWrap == InitWrap /\ [][NextWrap]_vars

---------------------------------------------------------------------------
(* Repeated clicks over two lines of words                                 *)

ClickDoc == <<<<Letter, SP, Letter + 1>>, <<Letter, SP, Letter + 1>>>>

InitClicks == probe = NoProbe /\ Constructed(ClickDoc, FALSE)

NextClicks ==
    \/ \E in \in Frames(ClickHost) : Update(in, <<>>)
    \/ ClearSelection

SpecClicks == InitClicks /\ [][NextClicks]_vars

---------------------------------------------------------------------------
(* copy() over any selection that lies inside the text                     *)

(* The positions of the text ls: a line and a character index up to its end *)
TextPositions(ls) ==
    {p \in {Pos(x, y - 1) : x \in 0 .. MaxLen, y \in 1 .. Len(ls)} :
        p.x <= utf8Length(ls[p.y + 1])}

(* The state once the pointer has put the endpoints at start and end *)
InitCopy ==
    /\ probe = NoProbe
    /\ \E ls \in ApiDocs \ {<<>>} : \E start \in TextPositions(ls), end \in TextPositions(ls) :
          /\ lines = ls
          /\ enableWordWrap = FALSE
          /\ selectStart = start
          /\ selectEnd = end
          /\ shouldHandleMouseDown = FALSE
          /\ mouseDown = FALSE
          /\ ev = NoEvent("init")
          /\ clipWrites = <<>>
          /\ lineAtCalls = {}
          /\ rects = <<>>
          /\ scrolls = {}

NextCopy == Copy(<<>>)

SpecCopy == InitCopy /\ [][NextCopy]_vars

---------------------------------------------------------------------------
(* A drag that leaves the window, over two short lines                     *)

DragDoc == <<<<Letter>>, <<Letter>>>>

(* Pointer coordinates left of, inside and right of the window, and above,  *)
(* inside (on the first line), below (on the second line) and far below it  *)
DragXs == {-1, 1, WindowWidth + 1}
DragYs == {-1, 1, WindowHeight + 1, 2 * WindowHeight}

(* The windows a frame that is not hovered can meet: no active window,      *)
(* another window active, or this one with some item or a scrollbar active  *)
Windows ==
    {Window("none", "other", 1), Window("other", "other", 1)}
        \cup {Window("current", id, 1) : id \in {"other", "scrollX", "scrollY"}}

(* The frames of a host that presses once, holds, drags and releases, over  *)
(* the window or off it                                                     *)
DragFrames(prevDown) ==
    {Frame(FALSE, 0, FALSE, FALSE, 0, 0, h, "none") : h \in BOOLEAN}
        \cup UNION {{[Frame(TRUE, IF prevDown THEN 0 ELSE 1, FALSE, prevDown /\ d,
                            mx, my, h, "none") EXCEPT !.win = w] :
                        w \in (IF h THEN {NoWindow} ELSE Windows)} :
                    d \in BOOLEAN, mx \in DragXs, my \in DragYs, h \in BOOLEAN}

InitDrag == probe = NoProbe /\ Constructed(DragDoc, FALSE)

NextDrag == \E in \in DragFrames(mouseDown) : UpdateOn(in, <<>>)

SpecDrag == InitDrag /\ [][NextDrag]_vars

---------------------------------------------------------------------------
(* The position handleMouseDown resolves, as a function of the pointer     *)

PressDocs == (Docs \cup LineDocs) \ {<<>>}

PressProbe(ls, wordWrap, mx, my) ==
    [fn |-> "handleMouseDown", ls |-> ls, wordWrap |-> wordWrap, mx |-> mx, my |-> my,
     r |-> PointerTable[ls, wordWrap][mx, my]]

InitPress ==
    /\ Constructed(<<>>, FALSE)
    /\ \E ls \in PressDocs, wordWrap \in BOOLEAN : probe = PressProbe(ls, wordWrap, -1, -1)

(* The pointer moves over the text and the position is resolved again *)
Press(mx, my) ==
    /\ probe.fn = "handleMouseDown"
    /\ <<mx, my>> # <<probe.mx, probe.my>>
    /\ probe' = PressProbe(probe.ls, probe.wordWrap, mx, my)
    /\ UNCHANGED <<lines, enableWordWrap, selectStart, selectEnd, shouldHandleMouseDown,
                   mouseDown, ev, clipWrites, lineAtCalls, rects, scrolls>>

NextPress ==
    \E mx \in PointerXs(probe.ls), my \in PointerYs(subLinesOf(probe.ls, probe.wordWrap)) :
        Press(mx, my)

SpecPress == InitPress /\ [][NextPress]_vars

---------------------------------------------------------------------------
(* wrapText over a line that is a view into host memory                    *)

(* The byte that follows the span of the line in host memory: the NUL of a  *)
(* string of its own, or the next byte of a larger buffer the line is a     *)
(* view into                                                                *)
Tails == {0, NL, SP, Letter}

WrapProbe(s, tail, wrapWidth) ==
    [fn |-> "wrapText", s |-> s, tail |-> tail, wrapWidth |-> wrapWidth,
     r |-> wrapText(s, tail, wrapWidth)]

InitTail ==
    /\ Constructed(<<>>, FALSE)
    /\ \E s \in WrapLines, tail \in Tails : probe = WrapProbe(s, tail, 1)

(* The window gets wider and the line is wrapped again *)
Rewrap(wrapWidth) ==
    /\ probe.fn = "wrapText"
    /\ wrapWidth > probe.wrapWidth
    /\ probe' = WrapProbe(probe.s, probe.tail, wrapWidth)
    /\ UNCHANGED <<lines, enableWordWrap, selectStart, selectEnd, shouldHandleMouseDown,
                   mouseDown, ev, clipWrites, lineAtCalls, rects, scrolls>>

NextTail == \E wrapWidth \in 2 .. 2 * WrapWidth : Rewrap(wrapWidth)

SpecTail == InitTail /\ [][NextTail]_vars

---------------------------------------------------------------------------
(* isBoundary as a function of the code point                              *)

BoundaryProbe(c) == [fn |-> "isBoundary", c |-> c, r |-> isBoundary(c)]

InitBoundary == Constructed(<<>>, FALSE) /\ probe = BoundaryProbe(0)

(* The scan of a double click comes to a character of a higher code point *)
Classify(c) ==
    /\ probe.fn = "isBoundary"
    /\ c > probe.c
    /\ probe' = BoundaryProbe(c)
    /\ UNCHANGED <<lines, enableWordWrap, selectStart, selectEnd, shouldHandleMouseDown,
                   mouseDown, ev, clipWrites, lineAtCalls, rects, scrolls>>

NextBoundary == \E c \in 1 .. MaxCodePoint : Classify(c)

SpecBoundary == InitBoundary /\ [][NextBoundary]_vars

---------------------------------------------------------------------------
(* getScrollDelta as a function of the pointer                             *)

(* The pointer coordinates probed, for a window that starts at 0: from      *)
(* beyond the cap on one side to beyond the cap on the other                *)
ScrollVs == (-(MaxDelta + MaxBeyondCap)) .. (MaxWindowSize + MaxDelta + MaxBeyondCap)

ScrollProbe(v, max, deltaTime) ==
    [fn |-> "getScrollDelta", v |-> v, min |-> 0, max |-> max, deltaTime |-> deltaTime,
     r |-> getScrollDelta(v, 0, max, deltaTime)]

InitScroll ==
    /\ Constructed(<<>>, FALSE)
    /\ \E max \in 0 .. MaxWindowSize, deltaTime \in 1 .. MaxDeltaTime :
          probe = ScrollProbe(-(MaxDelta + MaxBeyondCap), max, deltaTime)

(* The pointer moves on along the axis and the next frame asks again *)
ScrollFrame(v) ==
    /\ probe.fn = "getScrollDelta"
    /\ v > probe.v
    /\ probe' = ScrollProbe(v, probe.max, probe.deltaTime)
    /\ UNCHANGED <<lines, enableWordWrap, selectStart, selectEnd, shouldHandleMouseDown,
                   mouseDown, ev, clipWrites, lineAtCalls, rects, scrolls>>

NextScroll == \E v \in ScrollVs : ScrollFrame(v)

SpecScroll == InitScroll /\ [][NextScroll]_vars

---------------------------------------------------------------------------
(* Properties                                                              *)

(* A position both of whose fields are set *)
Valid(p) == p.x # NPOS /\ p.y # NPOS

(* A line without the one newline that may end it *)
LineBody(l) == IF l # <<>> /\ l[Len(l)] = NL THEN SubSeq(l, 1, Len(l) - 1) ELSE l

(* The lines k.. of ls, with exactly one newline between a line's body and   *)
(* the next line                                                             *)
RECURSIVE JoinedFrom(_, _)
JoinedFrom(ls, k) ==
    IF k >= Len(ls) THEN ls[k] ELSE LineBody(ls[k]) \o <<NL>> \o JoinedFrom(ls, k + 1)

(* C1: over any non-empty list of lines, a copy() that directly follows     *)
(* selectAll() writes to the clipboard, once, the lines joined with exactly *)
(* one newline between consecutive lines, whether or not a line already     *)
(* ends in a newline.                                                       *)
SelectAllCopyRoundTrip ==
    [][(ev.op = "selectAll" /\ ev'.op = "copy" /\ lines # <<>>)
          => clipWrites' = <<JoinedFrom(lines, 1)>>]_vars

(* The round trip over two lines of which the first already ends in a newline *)
SelectAllCopyRoundTripSeen ==
    /\ ev.op = "copy"
    /\ Len(lines) = 2
    /\ lines[1] # <<>> /\ lines[1][Len(lines[1])] = NL
    /\ selectStart = Pos(0, 0)
    /\ selectEnd = Pos(utf8Length(lines[2]), 1)
    /\ clipWrites = <<JoinedFrom(lines, 1)>>

(* C3: whenever both endpoints are valid, getSelection() returns            *)
(* startY <= endY, startX <= endX when startY = endY, and its two corners    *)
(* are exactly the two stored endpoints, whichever was set first.            *)
SelectionNormalized ==
    (Valid(selectStart) /\ Valid(selectEnd)) =>
        LET sel == getSelectionOf(selectStart, selectEnd)
        IN /\ sel.startY <= sel.endY
           /\ sel.startY = sel.endY => sel.startX <= sel.endX
           /\ {Pos(sel.startX, sel.startY), Pos(sel.endX, sel.endY)} = {selectStart, selectEnd}

(* A selection made backwards: the stored end lies before the stored start *)
SelectionNormalizedSeen ==
    /\ Valid(selectStart) /\ Valid(selectEnd)
    /\ selectEnd.y < selectStart.y
    /\ selectEnd.x > selectStart.x
    /\ getSelectionOf(selectStart, selectEnd).startX = selectEnd.x
    /\ getSelectionOf(selectStart, selectEnd).endY = selectStart.y

(* C4: a copy() made while hasSelection() is false, with no endpoint set or *)
(* with the start alone set, writes nothing to the clipboard and calls no   *)
(* line accessor; the copy shortcut of update() writes nothing either.      *)
CopyWithoutSelectionInert ==
    ~(Valid(selectStart) /\ Valid(selectEnd)) =>
        /\ ev.op = "copy" => (clipWrites = <<>> /\ lineAtCalls = {})
        /\ (ev.op = "update" /\ ev.key = "C") => clipWrites = <<>>

(* copy() called on a pending selection *)
CopyWithoutSelectionInertSeen ==
    /\ ev.op = "copy"
    /\ Valid(selectStart) /\ ~Valid(selectEnd)
    /\ clipWrites = <<>>
    /\ lineAtCalls = {}

(* The widths of the prefixes of s never decrease *)
PrefixWidthsNonDecreasing(s) ==
    \A i \in 0 .. utf8Length(s) - 1 :
        substringSizeX(s, 0, i) <= substringSizeX(s, 0, i + 1)

(* C10: for a line whose prefix widths are non-decreasing, moving the pixel *)
(* to the right never moves getCharIndex to the left.                        *)
HitTestMonotonic ==
    [][(PrefixWidthsNonDecreasing(probe.s) /\ probe'.s = probe.s /\ probe.x <= probe'.x)
          => probe.r <= probe'.r]_vars

(* A hit strictly inside a line of three characters, after the pointer moved *)
HitTestMonotonicSeen ==
    /\ probe.fn = "getCharIndex"
    /\ probe.x > 0
    /\ utf8Length(probe.s) = 3
    /\ probe.r = 2

(* The steps of the scenario over the lines "abc" and "defg": with no prior *)
(* selection, a plain single click resolved to line 0 char 1 leaves the     *)
(* selection pending at (1,0); a shift-click resolved to line 1 char 2 then *)
(* leaves the normalized selection (1,0)-(2,1); and copy() on it writes the *)
(* text copied, once.                                                       *)
ScenarioStep(copied) ==
    /\ ( /\ ~Valid(selectStart) /\ ~Valid(selectEnd)
         /\ ev'.op = "update" /\ ev'.clicks = 1 /\ ~ev'.shift
         /\ ev'.x = 1 /\ ev'.y = 0 )
       => (selectStart' = Pos(1, 0) /\ ~Valid(selectEnd'))
    /\ ( /\ selectStart = Pos(1, 0) /\ ~Valid(selectEnd)
         /\ ev'.op = "update" /\ ev'.clicks = 1 /\ ev'.shift
         /\ ev'.x = 2 /\ ev'.y = 1 )
       => getSelectionOf(selectStart', selectEnd')
            = [startX |-> 1, startY |-> 0, endX |-> 2, endY |-> 1]
    /\ ( /\ selectStart = Pos(1, 0) /\ selectEnd = Pos(2, 1)
         /\ ev'.op = "copy" )
       => clipWrites' = <<copied>>

(* C2 as stated: the click at (1,0) and the shift-click at (2,1) leave the  *)
(* selection (1,0)-(2,1) and copy() yields "bc\ndef".                       *)
ShiftClickScenarioAsStated == [][ScenarioStep(<<98, 99, NL, 100, 101, 102>>)]_vars

(* C2: the click at (1,0) and the shift-click at (2,1) leave the selection  *)
(* (1,0)-(2,1) and copy() yields "bc\nde": the end of a selection is the    *)
(* index one past the last character copied.                                *)
ShiftClickScenario == [][ScenarioStep(<<98, 99, NL, 100, 101>>)]_vars

(* The end of the scenario: the shift-click made, the text copied *)
ShiftClickScenarioSeen ==
    /\ lines = ScenarioDoc
    /\ ev.op = "copy"
    /\ selectStart = Pos(1, 0) /\ selectEnd = Pos(2, 1)
    /\ clipWrites = <<<<98, 99, NL, 100, 101>>>>

(* C5: once the content has shrunk below a complete selection (startY or    *)
(* endY is at least the line count), drawing and copy() do nothing: no      *)
(* rectangle, no clipboard write, no accessor call with an index at or      *)
(* beyond the line count.                                                   *)
ShrunkContentInert ==
    ( /\ Valid(selectStart) /\ Valid(selectEnd)
      /\ \/ getSelectionOf(selectStart, selectEnd).startY >= Len(lines)
         \/ getSelectionOf(selectStart, selectEnd).endY >= Len(lines)
      /\ ev.op \in {"update", "copy"} )
    => /\ rects = <<>>
       /\ clipWrites = <<>>
       /\ \A i \in lineAtCalls : i < Len(lines)

(* The boundary class of character i of the line s *)
ClassAt(s, i) == isBoundary(CharAtIndex(s, LineTail, i))

(* [a, b) is the maximal run of characters of s around x in the class of x *)
MaximalRun(s, x, a, b) ==
    /\ a <= x /\ x < b /\ b <= utf8Length(s)
    /\ \A i \in a .. b - 1 : ClassAt(s, i) = ClassAt(s, x)
    /\ a = 0 \/ ClassAt(s, a - 1) # ClassAt(s, x)
    /\ b = utf8Length(s) \/ ClassAt(s, b) # ClassAt(s, x)

(* C6: a press whose click count is even and not a multiple of 3, on a      *)
(* character x inside a line, selects the maximal run of characters around  *)
(* x that share the boundary class of x: selectStart.x is the first index   *)
(* of the run, selectEnd.x one past its last, both on the clicked line.     *)
DoubleClickSelectsRun ==
    ( /\ ev.op = "update" /\ ev.clicks > 0
      /\ ev.clicks % 2 = 0 /\ ev.clicks % 3 # 0
      /\ ev.x # NPOS /\ ev.x < utf8Length(lines[ev.y + 1]) )
    => /\ selectStart.y = ev.y /\ selectEnd.y = ev.y
       /\ MaximalRun(lines[ev.y + 1], ev.x, selectStart.x, selectEnd.x)

(* A double click on a run of one character in the middle of a line *)
DoubleClickSelectsRunSeen ==
    /\ ev.op = "update" /\ ev.clicks = 2
    /\ ev.x = 1
    /\ utf8Length(lines[1]) = 3
    /\ selectStart = Pos(1, 0) /\ selectEnd = Pos(2, 0)

(* C7: a press whose click count is a multiple of 3, on any sub-line of     *)
(* line y, sets selectStart = (0, y) and selectEnd = (0, y + 1), or         *)
(* (character count of line y, y) when y is the last line.                  *)
TripleClickSelectsLine ==
    ( /\ ev.op = "update" /\ ev.clicks > 0 /\ ev.clicks % 3 = 0
      /\ ev.x # NPOS /\ ev.key # "A" )
    => /\ selectStart = Pos(0, ev.y)
       /\ selectEnd = IF ev.y + 1 < Len(lines) THEN Pos(0, ev.y + 1)
                      ELSE Pos(utf8Length(lines[ev.y + 1]), ev.y)

(* A triple click on the second sub-line of a wrapped line that is not last *)
TripleClickSelectsLineSeen ==
    /\ ev.op = "update" /\ ev.clicks = 3 /\ ev.key = "none"
    /\ enableWordWrap
    /\ ev.sub = 1 /\ ev.y = 0 /\ Len(lines) = 2
    /\ selectStart = Pos(0, 0) /\ selectEnd = Pos(0, 1)

(* C8: a handled press with a click count divisible by neither 2 nor 3 and  *)
(* shift not held sets selectStart to the clicked position and selectEnd    *)
(* invalid, so hasSelection() is false after it.                            *)
PlainClickStartsSelection ==
    ( /\ ev.op = "update" /\ ev.clicks % 2 # 0 /\ ev.clicks % 3 # 0
      /\ ~ev.shift /\ ev.x # NPOS /\ ev.key # "A" )
    => /\ selectStart = Pos(ev.x, ev.y)
       /\ ev.y < Len(lines) /\ ev.x <= utf8Length(lines[ev.y + 1])
       /\ selectEnd = Pos(NPOS, NPOS)
       /\ ~hasSelectionOf(selectStart, selectEnd)

(* A plain click inside the second line *)
PlainClickStartsSelectionSeen ==
    /\ ev.op = "update" /\ ev.clicks = 1 /\ ~ev.shift /\ ev.key = "none"
    /\ ev.x = 2 /\ ev.y = 1
    /\ selectStart = Pos(2, 1)
    /\ ~Valid(selectEnd)

(* C9: a handled single click with shift held sets selectEnd to the clicked *)
(* position; selectStart is left as it was when valid and set to (0,0)      *)
(* when invalid; hasSelection() is true after it.                           *)
ShiftClickExtends ==
    [][( /\ ev'.op = "update" /\ ev'.clicks % 2 # 0 /\ ev'.clicks % 3 # 0
         /\ ev'.shift /\ ev'.x # NPOS /\ ev'.key # "A" )
       => /\ selectEnd' = Pos(ev'.x, ev'.y)
          /\ selectStart' = IF Valid(selectStart) THEN selectStart ELSE Pos(0, 0)
          /\ Valid(selectStart') /\ Valid(selectEnd')
      ]_vars

(* A shift-click before a start that the click left where it was *)
ShiftClickExtendsSeen ==
    /\ ev.op = "update" /\ ev.clicks = 1 /\ ev.shift /\ ev.key = "none"
    /\ selectStart = Pos(2, 1)
    /\ selectEnd = Pos(ev.x, ev.y)
    /\ selectEnd.y = 0

(* C11: with at least one line, selectAll() (called by the host or by the   *)
(* shortcut of update) sets selectStart = (0,0) and selectEnd = (character  *)
(* count of the last line, index of the last line), whatever the endpoints  *)
(* were; hasSelection() is true afterwards, also when every line is empty.  *)
SelectAllSpansText ==
    ( /\ ev.op = "selectAll" \/ (ev.op = "update" /\ ev.key = "A")
      /\ Len(lines) > 0 )
    => /\ selectStart = Pos(0, 0)
       /\ selectEnd = Pos(utf8Length(lines[Len(lines)]), Len(lines) - 1)
       /\ hasSelectionOf(selectStart, selectEnd)

(* selectAll() over two lines of which the last is not empty *)
SelectAllSpansTextSeen ==
    /\ ev.op = "selectAll"
    /\ Len(lines) = 2
    /\ lines[1] = <<>>
    /\ selectStart = Pos(0, 0) /\ selectEnd = Pos(3, 1)
    /\ hasSelectionOf(selectStart, selectEnd)

(* C12: with no lines, selectAll() returns early: it calls lineAt with no   *)
(* index at all and leaves both endpoints as they were.                     *)
SelectAllOfNothingInert ==
    [][(ev'.op = "selectAll" /\ lines = <<>>)
          => /\ lineAtCalls' = {}
             /\ selectStart' = selectStart
             /\ selectEnd' = selectEnd]_vars

(* C13: both endpoints are invalid and hasSelection() is false right after  *)
(* construction and right after clearSelection(), from any state; and a     *)
(* position is invalid exactly when its x or its y is the sentinel.         *)
ClearedIsInvalid ==
    /\ ev.op \in {"init", "clear"}
         => /\ selectStart = Pos(NPOS, NPOS) /\ selectEnd = Pos(NPOS, NPOS)
            /\ isInvalid(selectStart) /\ isInvalid(selectEnd)
            /\ ~hasSelectionOf(selectStart, selectEnd)
    /\ \A p \in {selectStart, selectEnd} : isInvalid(p) <=> (p.x = NPOS \/ p.y = NPOS)

(* clearSelection() called in the middle of a handled button hold *)
ClearedIsInvalidSeen ==
    /\ ev.op = "clear"
    /\ mouseDown /\ shouldHandleMouseDown
    /\ ~hasSelectionOf(selectStart, selectEnd)

(* C15: the endpoint pair is always uninitialized (both invalid), pending   *)
(* (start valid, end invalid) or complete (both valid): selectStart invalid *)
(* with selectEnd valid is never reached.                                   *)
EndpointStates == ~(~Valid(selectStart) /\ Valid(selectEnd))

SubLinesOfLine(r, i) == {k \in 1 .. Len(r) : r[k].wholeLineIndex = i}

(* C16: getSubLines() yields at least one sub-line for every logical line,  *)
(* in non-decreasing order of wholeLineIndex; with wrapping enabled an      *)
(* empty line yields exactly one sub-line, which is empty; with wrapping    *)
(* disabled there are exactly lineCount() sub-lines and sub-line i is the   *)
(* whole text of line i.                                                    *)
SubLinesCoverLines ==
    probe.fn = "getSubLines" =>
        /\ \A i \in 0 .. Len(probe.ls) - 1 : SubLinesOfLine(probe.r, i) # {}
        /\ \A k \in 1 .. Len(probe.r) : probe.r[k].wholeLineIndex < Len(probe.ls)
        /\ \A k \in 1 .. Len(probe.r) - 1 :
              probe.r[k].wholeLineIndex <= probe.r[k + 1].wholeLineIndex
        /\ probe.wordWrap =>
              \A i \in 0 .. Len(probe.ls) - 1 :
                  probe.ls[i + 1] = <<>> =>
                      /\ Cardinality(SubLinesOfLine(probe.r, i)) = 1
                      /\ \A k \in SubLinesOfLine(probe.r, i) :
                            SubLineString(probe.ls, probe.r[k]) = <<>>
        /\ ~probe.wordWrap =>
              /\ Len(probe.r) = Len(probe.ls)
              /\ \A k \in 1 .. Len(probe.r) :
                    /\ probe.r[k].wholeLineIndex = k - 1
                    /\ SubLineString(probe.ls, probe.r[k]) = probe.ls[k]

(* Wrapping on: an empty line between a line wrapped in two and the end *)
SubLinesCoverLinesSeen ==
    /\ probe.fn = "getSubLines" /\ probe.wordWrap
    /\ Len(probe.ls) = 2 /\ probe.ls[2] = <<>>
    /\ Len(probe.r) = 3
    /\ probe.r[3] = [start |-> 0, len |-> 0, wholeLineIndex |-> 1]

(* The distance d capped at MaxDelta *)
Capped(d) == IF d > MaxDelta THEN MaxDelta ELSE d

(* C17: the scroll delta for the coordinate v and the bounds [min, max] is  *)
(* zero when min <= v <= max, negative when v < min and positive when       *)
(* v > max, of magnitude the distance outside the bound, capped at 100,     *)
(* times 10 times the frame delta time; so it is for a window of extent 0.  *)
ScrollDeltaLaw ==
    probe.fn = "getScrollDelta" =>
        /\ (probe.min <= probe.v /\ probe.v <= probe.max) => probe.r = 0
        /\ probe.v < probe.min =>
              /\ probe.r < 0
              /\ -probe.r = Capped(probe.min - probe.v) * 10 * probe.deltaTime
        /\ probe.v > probe.max =>
              /\ probe.r > 0
              /\ probe.r = Capped(probe.v - probe.max) * 10 * probe.deltaTime

(* The pointer above a window of extent 0, farther than the cap *)
ScrollDeltaLawSeen ==
    /\ probe.fn = "getScrollDelta"
    /\ probe.min = probe.max
    /\ probe.v = probe.min - 101
    /\ probe.deltaTime = 2
    /\ probe.r = -2000

(* The endpoints of the line y of ls *)
LineSelected(ls, y, start, end) ==
    /\ start = Pos(0, y)
    /\ end = IF y + 1 < Len(ls) THEN Pos(0, y + 1) ELSE Pos(utf8Length(ls[y + 1]), y)

(* The endpoints of the word of ls at (x, y) *)
WordSelected(ls, x, y, start, end) ==
    /\ start.y = y /\ end.y = y
    /\ start.x <= x /\ x <= end.x /\ end.x <= utf8Length(ls[y + 1])
    /\ x < utf8Length(ls[y + 1]) => MaximalRun(ls[y + 1], x, start.x, end.x)

(* C18: a handled press of click count c selects the line when c % 3 = 0    *)
(* (so for 6 and 9, shift held or not); else the word when c % 2 = 0 (so    *)
(* for 4 and 8, shift held or not); else extends the selection when shift   *)
(* is held; else starts a selection at the click (so for 5 and 7).          *)
ClickCountDispatch ==
    [][( ev'.op = "update" /\ ev'.clicks > 0 /\ ev'.x # NPOS /\ ev'.key # "A" )
       => IF ev'.clicks % 3 = 0
          THEN LineSelected(lines, ev'.y, selectStart', selectEnd')
          ELSE IF ev'.clicks % 2 = 0
          THEN WordSelected(lines, ev'.x, ev'.y, selectStart', selectEnd')
          ELSE IF ev'.shift
          THEN /\ selectEnd' = Pos(ev'.x, ev'.y)
               /\ selectStart' = IF Valid(selectStart) THEN selectStart ELSE Pos(0, 0)
          ELSE /\ selectStart' = Pos(ev'.x, ev'.y)
               /\ selectEnd' = InvalidPos
      ]_vars

(* Six clicks with shift held, on the second word of the first line *)
ClickCountDispatchSeen ==
    /\ ev.op = "update" /\ ev.clicks = 6 /\ ev.shift
    /\ ev.x = 2 /\ ev.y = 0
    /\ selectStart = Pos(0, 0) /\ selectEnd = Pos(0, 1)

(* The byte offset in s of its character n, by counting the bytes that      *)
(* start a character; Len(s) for the position past the last character       *)
CharOffset(s, n) ==
    LET starts == {i \in 1 .. Len(s) : s[i] < 128 \/ s[i] >= 192}
        at == {i \in starts : Cardinality({j \in starts : j < i}) = n}
    IN IF at = {} THEN Len(s) ELSE (CHOOSE i \in at : TRUE) - 1

(* The characters a .. b - 1 of s *)
Chars(s, a, b) == SubSeq(s, CharOffset(s, a) + 1, CharOffset(s, b))

(* The part of line i (counted from 0) inside the selection start..end *)
SegmentOf(ls, start, end, i) ==
    Chars(ls[i + 1], IF i = start.y THEN start.x ELSE 0,
          IF i = end.y THEN end.x ELSE utf8Length(ls[i + 1]))

(* The segments of the lines i .. end.y, each one before the last followed  *)
(* by a newline unless it ends in one                                       *)
RECURSIVE SelectedText(_, _, _, _)
SelectedText(ls, start, end, i) ==
    IF i > end.y THEN <<>>
    ELSE LET seg == SegmentOf(ls, start, end, i)
         IN seg \o (IF i < end.y /\ (seg = <<>> \/ seg[Len(seg)] # NL) THEN <<NL>> ELSE <<>>)
                \o SelectedText(ls, start, end, i + 1)

(* start is not after end *)
InOrder(start, end) == start.y < end.y \/ (start.y = end.y /\ start.x <= end.x)

(* C19: for a complete selection inside the text, copy() writes, once, the  *)
(* concatenation over the lines startY..endY of the characters of line i    *)
(* from startX (0 when i is not startY) up to, not including, endX (the line *)
(* end when i is not endY), each segment before the last followed by one    *)
(* newline exactly when it does not end in one, and none after the last;    *)
(* the selection a triple click makes of a line that is not the last copies *)
(* as the line followed by exactly one newline.                             *)
CopySelectedText ==
    ( /\ ev.op = "copy" /\ Valid(selectStart) /\ Valid(selectEnd)
      /\ selectStart \in TextPositions(lines) /\ selectEnd \in TextPositions(lines) )
    => LET start == IF InOrder(selectStart, selectEnd) THEN selectStart ELSE selectEnd
           end == IF InOrder(selectStart, selectEnd) THEN selectEnd ELSE selectStart
       IN /\ clipWrites = <<SelectedText(lines, start, end, start.y)>>
          /\ (start.x = 0 /\ end = Pos(0, start.y + 1))
                => clipWrites = <<LineBody(lines[start.y + 1]) \o <<NL>>>>

(* A copy from inside a first line that ends in a newline into the second *)
CopySelectedTextSeen ==
    /\ ev.op = "copy"
    /\ lines = <<Encode(<<EDiaeresis, NL>>), <<Letter, Letter>>>>
    /\ selectStart = Pos(1, 1) /\ selectEnd = Pos(1, 0)
    /\ clipWrites = <<<<NL, Letter>>>>

(* The rectangles drawn for line i (counted from 0) *)
RectsOfLine(i) == {k \in 1 .. Len(rects) : rects[k].line = i}

(* C20: with word wrap disabled and a complete selection inside the text    *)
(* with startY < endY, the frame draws one rectangle for every line i with  *)
(* startY <= i <= endY and none for any other line; for every line i < endY *)
(* (an empty line too, and a first line on which the selection starts at    *)
(* the line's end) the right edge of the rectangle is the full width of the *)
(* line plus the width of one space.                                        *)
RectanglePerSelectedLine ==
    ( /\ ev.op = "update" /\ ev.key # "A" /\ ~enableWordWrap
      /\ Valid(selectStart) /\ Valid(selectEnd)
      /\ selectStart \in TextPositions(lines) /\ selectEnd \in TextPositions(lines)
      /\ selectStart.y # selectEnd.y )
    => LET startY == Min(selectStart.y, selectEnd.y)
           endY == Max(selectStart.y, selectEnd.y)
       IN /\ \A i \in 0 .. Len(lines) - 1 :
                Cardinality(RectsOfLine(i)) = IF startY <= i /\ i <= endY THEN 1 ELSE 0
          /\ \A i \in startY .. endY - 1 : \A k \in RectsOfLine(i) :
                rects[k].maxX = CalcTextSizeX(lines[i + 1]) + CalcTextSizeX(<<SP>>)

LastFrame == probe.in

(* v lies outside the bounds 0 .. size of the window on its axis *)
OffWindow(v, size) == v < 0 \/ v > size

(* C29: update() issues a scroll command only in a frame where the button   *)
(* is down, the window is not hovered, the active window exists and is the  *)
(* current window, and neither scrollbar is the active item; each axis is   *)
(* decided on its own, and no command is issued on an axis on which the     *)
(* pointer lies within the window bounds.                                   *)
ScrollOnlyOffWindow ==
    /\ scrolls # {} => (ev.op = "update" /\ probe.fn = "update")
    /\ probe.fn = "update" =>
          /\ scrolls # {} =>
                /\ LastFrame.down /\ ~LastFrame.hovered
                /\ LastFrame.win.activeWindow = "current"
                /\ LastFrame.win.activeID \notin {"scrollX", "scrollY"}
          /\ (\E c \in scrolls : c.axis = "x") => OffWindow(LastFrame.mx, LastFrame.win.width)
          /\ (\E c \in scrolls : c.axis = "y") => OffWindow(LastFrame.my, LastFrame.win.height)
          /\ \A c \in scrolls : c.axis \in {"x", "y"}

(* A frame off the window below it, inside it horizontally: the vertical    *)
(* command alone                                                            *)
ScrollOnlyOffWindowSeen ==
    /\ probe.fn = "update"
    /\ LastFrame.down /\ ~LastFrame.hovered
    /\ LastFrame.mx = 1 /\ LastFrame.my > LastFrame.win.height
    /\ \E c \in scrolls : c.axis = "y" /\ c.delta > 0
    /\ ~\E c \in scrolls : c.axis = "x"

(* C22: an update() frame with the button up in which the select-all        *)
(* shortcut does not fire leaves selectStart and selectEnd as they were;    *)
(* copy(), called by the host or by the shortcut, and the drawing of a      *)
(* frame without any button event change neither the endpoints nor          *)
(* shouldHandleMouseDown.                                                   *)
ReadersLeaveEndpoints ==
    [][ /\ (ev'.op = "update" /\ ~mouseDown' /\ ev'.key # "A")
              => (selectStart' = selectStart /\ selectEnd' = selectEnd)
        /\ (ev'.op = "update" /\ ~mouseDown /\ ~mouseDown' /\ ev'.key # "A")
              => shouldHandleMouseDown' = shouldHandleMouseDown
        /\ ev'.op = "copy"
              => /\ selectStart' = selectStart /\ selectEnd' = selectEnd
                 /\ shouldHandleMouseDown' = shouldHandleMouseDown
      ]_vars

(* A frame with the button up that drew a selection and copied it *)
ReadersLeaveEndpointsSeen ==
    /\ ev.op = "update" /\ ~mouseDown /\ ev.key = "C"
    /\ Valid(selectStart) /\ Valid(selectEnd) /\ selectStart # selectEnd
    /\ rects # <<>>
    /\ clipWrites # <<>>

(* The width of the first i characters of s *)
PrefixWidth(s, i) == CalcTextSizeX(Chars(s, 0, i))

(* C23: for a line of n characters whose prefix widths w(0..n) never        *)
(* decrease, getCharIndex returns a value in 0..n: 0 when x is negative or  *)
(* the line is empty, n when x exceeds w(n), and otherwise an index i with  *)
(* w(i) <= x <= w(i+1), w(n+1) read as w(n); no step of the search takes    *)
(* midIdx - 1 from midIdx = 0.                                              *)
HitTestBrackets ==
    (probe.fn = "getCharIndex" /\ PrefixWidthsNonDecreasing(probe.s)) =>
        LET n == utf8Length(probe.s)
        IN /\ probe.r \in 0 .. n
           /\ (probe.x < 0 \/ probe.s = <<>>) => probe.r = 0
           /\ (probe.x > PrefixWidth(probe.s, n) /\ probe.s # <<>>) => probe.r = n
           /\ (probe.x >= 0 /\ probe.x <= PrefixWidth(probe.s, n) /\ probe.s # <<>>)
                 => /\ PrefixWidth(probe.s, probe.r) <= probe.x
                    /\ probe.x <= PrefixWidth(probe.s, Min(probe.r + 1, n))
           /\ ~probe.underflow

(* A hit inside the first character of a line of three, the search having   *)
(* gone left of its first midpoint                                          *)
HitTestBracketsSeen ==
    /\ probe.fn = "getCharIndex"
    /\ probe.s = <<Letter, SP, Letter>>
    /\ probe.x = 1
    /\ probe.r = 0
    /\ ~probe.underflow

(* The sub-line the last press resolved to, and the hit test inside it *)
PressedSubLine == subLinesOf(probe.ls, probe.wordWrap)[probe.r.subY + 1]
PressedHit == getCharIndexOf(SubLineString(probe.ls, PressedSubLine), probe.mx)

(* The characters in the sub-lines of the pressed line before the pressed one *)
RECURSIVE CharsOfSubLines(_, _, _)
CharsOfSubLines(ls, subLines, ks) ==
    IF ks = {} THEN 0
    ELSE LET k == CHOOSE k \in ks : TRUE
         IN utf8Length(SubLineString(ls, subLines[k])) + CharsOfSubLines(ls, subLines, ks \ {k})

PrecedingSubLines ==
    {k \in 1 .. probe.r.subY :
        subLinesOf(probe.ls, probe.wordWrap)[k].wholeLineIndex = probe.r.y}

(* C24 as stated: with wrapping enabled, the character index resolved for a *)
(* press on a sub-line is the hit test inside the sub-line plus the sum of  *)
(* the character counts of the preceding sub-lines of the same line.        *)
PressIndexSumsSubLines ==
    (probe.fn = "handleMouseDown" /\ probe.wordWrap) =>
        probe.r.x = PressedHit
                    + CharsOfSubLines(probe.ls, subLinesOf(probe.ls, probe.wordWrap),
                                      PrecedingSubLines)

(* C24: with wrapping enabled, the character index resolved for a press on  *)
(* a sub-line is the hit test inside the sub-line plus the number of        *)
(* characters of the line that lie before the start of the sub-line: those  *)
(* of the preceding sub-lines and the whitespace trimmed at the wrap points *)
(* between them.                                                            *)
PressIndexCountsLine ==
    (probe.fn = "handleMouseDown" /\ probe.wordWrap) =>
        /\ probe.r.x = PressedHit
                       + Cardinality({i \in 1 .. PressedSubLine.start :
                                         probe.ls[probe.r.y + 1][i] < 128
                                            \/ probe.ls[probe.r.y + 1][i] >= 192})
        /\ probe.r.x >= PressedHit
                        + CharsOfSubLines(probe.ls, subLinesOf(probe.ls, probe.wordWrap),
                                          PrecedingSubLines)

(* A press on the second sub-line of "a b", wrapped at the blank *)
PressIndexCountsLineSeen ==
    /\ probe.fn = "handleMouseDown" /\ probe.wordWrap
    /\ probe.ls = <<<<Letter, SP, Letter + 1>>>>
    /\ probe.r.subY = 1
    /\ PressedHit = 0
    /\ probe.r.x = 2

(* The rectangles drawn when the whole text is selected *)
RowsOf(ls, wordWrap) ==
    drawSelection(ls, wordWrap, Pos(0, 0), Pos(utf8Length(ls[Len(ls)]), Len(ls) - 1))

(* C25: the sub-line a press at the vertical offset y resolves to is the    *)
(* sub-line whose selection rectangle, as drawSelection lays it out,        *)
(* contains y; an offset above the first line resolves to sub-line 0 and an *)
(* offset below the last line to the last sub-line.                         *)
PressMatchesRows ==
    probe.fn = "handleMouseDown" =>
        LET rows == RowsOf(probe.ls, probe.wordWrap)
        IN /\ \A k \in 1 .. Len(rows) :
                 (rows[k].minY <= probe.my /\ probe.my < rows[k].maxY)
                     => probe.r.subY = rows[k].sub
           /\ probe.my < 0 => probe.r.subY = 0
           /\ (\A k \in 1 .. Len(rows) : probe.my >= rows[k].maxY)
                 => probe.r.subY = Len(subLinesOf(probe.ls, probe.wordWrap)) - 1

(* C26: over fixed content of at least one line, whatever presses, drags,   *)
(* select-all and clear came before, every valid endpoint (x, y) has        *)
(* y < lineCount() and x <= the character count of line y, and the calls    *)
(* of a frame or of copy() pass getLineAtIdx indices inside the lines only. *)
EndpointsInsideText ==
    lines # <<>> =>
        /\ Valid(selectStart) => selectStart \in TextPositions(lines)
        /\ Valid(selectEnd) => selectEnd \in TextPositions(lines)
        /\ lineAtCalls \subseteq 0 .. Len(lines) - 1

(* A double click at the end of a line, with the copy shortcut in the frame *)
EndpointsInsideTextSeen ==
    /\ ev.op = "update" /\ ev.clicks = 2 /\ ev.key = "C"
    /\ ev.y = 0 /\ Len(lines) = 2
    /\ ev.x = utf8Length(lines[1]) /\ ev.x = 3
    /\ selectEnd = Pos(3, 0)
    /\ clipWrites # <<>>

(* The rectangles of the selection between start and end, without wrapping *)
RectsBetween(ls, start, end) ==
    drawLoop(ls, getSubLines(ls, FALSE, WrapWidth), getSelectionOf(start, end), 1, 0)

(* C27: getSelection() is the same with selectStart and selectEnd swapped,  *)
(* so the text copy() writes and the rectangles drawn are the same for a    *)
(* selection made forward and for the one made backward.                    *)
NormalizerSymmetric ==
    (Valid(selectStart) /\ Valid(selectEnd)) =>
        /\ getSelectionOf(selectStart, selectEnd) = getSelectionOf(selectEnd, selectStart)
        /\ ev.op = "copy" => clipWrites = copy(lines, selectEnd, selectStart, <<>>).writes
        /\ RectsBetween(lines, selectStart, selectEnd)
              = RectsBetween(lines, selectEnd, selectStart)

(* A copy of a selection made backward, from the end of the second line to  *)
(* the start of the first                                                   *)
NormalizerSymmetricSeen ==
    /\ ev.op = "copy"
    /\ lines = <<<<Letter>>, <<Letter, NL>>>>
    /\ selectStart = Pos(2, 1) /\ selectEnd = Pos(0, 0)
    /\ clipWrites = <<<<Letter, NL, Letter, NL>>>>
    /\ Len(RectsBetween(lines, selectStart, selectEnd)) = 2

(* C28: for every line text and wrap width, the scan position of wrapText   *)
(* never moves past the end of the span of the line, whatever byte follows  *)
(* the span in host memory, a newline included.                             *)
WrapStaysInsideSpan ==
    probe.fn = "wrapText" =>
        /\ ~probe.r.overrun
        /\ \A k \in 1 .. Len(probe.r.subs) :
              probe.r.subs[k].start + probe.r.subs[k].len <= Len(probe.s)

(* The line "a" as a view into the buffer "a\n...", in a window wide enough *)
(* for it: the scan ends one byte past the span                             *)
WrapOverrunsViewSeen ==
    /\ probe.fn = "wrapText"
    /\ probe.s = <<Letter>> /\ probe.tail = NL /\ probe.wrapWidth = WrapWidth
    /\ probe.r.overrun

(* The ASCII letters and digits, and the printable ASCII characters *)
AsciiAlnum == (48 .. 57) \cup (65 .. 90) \cup (97 .. 122)
AsciiPrintable == 32 .. 126

(* C30: isBoundary(c) is true exactly for the code points in 0x20-0x2F,     *)
(* 0x3A-0x40, 0x5B-0x60 and 0x7B-0xBF: no ASCII letter or digit is a        *)
(* boundary, the space and every printable ASCII punctuation character, the *)
(* underscore included, is one, and no code point above 0xBF is one.        *)
BoundaryRanges ==
    probe.fn = "isBoundary" =>
        /\ probe.r = (probe.c \in (32 .. 47) \cup (58 .. 64) \cup (91 .. 96) \cup (123 .. 191))
        /\ probe.c \in AsciiAlnum => ~probe.r
        /\ probe.c \in AsciiPrintable \ AsciiAlnum => probe.r
        /\ probe.c > 191 => ~probe.r

(* The last code point of the Latin-1 block of boundary characters *)
BoundaryRangesSeen ==
    /\ probe.fn = "isBoundary"
    /\ probe.c = 191
    /\ probe.r

=============================================================================
